---------------------------- MODULE Spec2Model ----------------------------
(***************************************************************************)
(* A model of packages/server/src/runHttpQuery.ts: the HeaderMap, the      *)
(* HttpQueryError, the request normalisation, runHttpQuery around its one  *)
(* await of processGraphQLRequest, cloneObject and executeContextFunction. *)
(*                                                                         *)
(* Three specifications share the module:                                  *)
(*   SpecHeaders  HeaderMap / HttpQueryError header handling               *)
(*   SpecCtx      executeContextFunction                                   *)
(*   Spec         runHttpQuery                                             *)
(***************************************************************************)
EXTENDS Integers, Sequences, FiniteSets, TLC

VARIABLES
    \* ---- SpecHeaders
    hm,          \* a HeaderMap held by the caller: sequence of <<name, value>>
    hmLast,      \* the last operation on it and whether it threw
    \* ---- SpecCtx
    cfPc,        \* "idle" | "awaiting" | "done"
    cfFn,        \* what the context function will do once awaited
    cfOut,       \* how executeContextFunction ended
    \* ---- Spec
    pc,          \* runHttpQuery: "idle" | "awaiting" | "done"
    calls,       \* calls of runHttpQuery started so far
    httpRequest, \* the request of the current call
    options,     \* the caller's options object (options.debug is written)
    graphqlRequest,  \* the normalised request
    plugins,     \* the call's own plugin list
    partialResponse, \* { headers, statusCode } shared with the pipeline
    objs,        \* the heap of context objects: id -> top-level fields
    nested,      \* the heap of nested objects: id -> their one slot
    ctxRef,      \* requestContext.context: an id of objs
    pipeline,    \* processGraphQLRequest: progress and outcome
    ctxLog,      \* what the pipeline wrote to the context in this call
    formatterCalls,  \* formatApolloErrors calls in this call
    result       \* how runHttpQuery ended

hvars == <<hm, hmLast>>
cvars == <<cfPc, cfFn, cfOut>>
rvars == <<pc, calls, httpRequest, options, graphqlRequest, plugins, partialResponse,
           objs, nested, ctxRef, pipeline, ctxLog, formatterCalls, result>>
vars  == <<hvars, cvars, rvars>>

-----------------------------------------------------------------------------
(* Strings that the code inspects character by character are sequences of  *)
(* one-character strings.                                                   *)

UpperChars == <<"A","B","C","D","E","F","G","H","I","J","K","L","M",
                "N","O","P","Q","R","S","T","U","V","W","X","Y","Z">>
LowerChars == <<"a","b","c","d","e","f","g","h","i","j","k","l","m",
                "n","o","p","q","r","s","t","u","v","w","x","y","z">>

\* String.prototype.toLowerCase, one character
ToLowerChar(c) ==
    IF \E i \in 1..Len(UpperChars) : UpperChars[i] = c
    THEN LowerChars[CHOOSE i \in 1..Len(UpperChars) : UpperChars[i] = c]
    ELSE c

\* String.prototype.toLowerCase
ToLowerCase(s) == [i \in 1..Len(s) |-> ToLowerChar(s[i])]

h_allow        == <<"a","l","l","o","w">>
h_Allow        == <<"A","l","l","o","w">>
h_contentType  == <<"c","o","n","t","e","n","t","-","t","y","p","e">>
h_contentLength == <<"c","o","n","t","e","n","t","-","l","e","n","g","t","h">>
h_xTrace       == <<"x","-","t">>
h_xTRACE       == <<"x","-","T">>

\* Map.prototype.get on a missing key
NoValue == "<undefined>"

-----------------------------------------------------------------------------
(* Map<string,string>: insertion-ordered, one entry per key.               *)

MapHas(m, k) == \E i \in 1..Len(m) : m[i][1] = k

MapGet(m, k) ==
    IF MapHas(m, k) THEN m[CHOOSE i \in 1..Len(m) : m[i][1] = k][2] ELSE NoValue

\* Map.prototype.set: an existing key keeps its place
MapSet(m, k, v) ==
    IF MapHas(m, k)
    THEN [i \in 1..Len(m) |-> IF m[i][1] = k THEN <<k, v>> ELSE m[i]]
    ELSE Append(m, <<k, v>>)

MapDelete(m, k) == SelectSeq(m, LAMBDA e : e[1] # k)

\* HeaderMap.set with the lower-case test left out
HeaderMapSetUnchecked(m, key, value) ==
    [threw |-> FALSE, map |-> MapSet(m, key, value)]

\* HeaderMap.set: throws unless key.toLowerCase() === key
HeaderMapSet(m, key, value) ==
    IF ToLowerCase(key) # key
    THEN [threw |-> TRUE, map |-> m]
    ELSE [threw |-> FALSE, map |-> MapSet(m, key, value)]

\* new HeaderMap(entries): the Map constructor adds each entry through this.set
RECURSIVE HeaderMapAddAll(_, _)
HeaderMapAddAll(m, entries) ==
    IF entries = <<>> THEN [threw |-> FALSE, map |-> m]
    ELSE LET r == HeaderMapSet(m, Head(entries)[1], Head(entries)[2])
         IN  IF r.threw THEN [threw |-> TRUE, map |-> <<>>]
             ELSE HeaderMapAddAll(r.map, Tail(entries))

HeaderMapNew(entries) == HeaderMapAddAll(<<>>, entries)

-----------------------------------------------------------------------------
(* HttpQueryError                                                           *)

\* thrown values: cls is the class the value is an instance of
\* and message is the text as a sequence of its parts
ErrorValue(cls, statusCode, message, headers) ==
    [cls |-> cls, statusCode |-> statusCode, message |-> <<message>>, headers |-> headers]

PlainError(message) == ErrorValue("Error", 0, message, <<>>)
TypeError(message)  == ErrorValue("TypeError", 0, message, <<>>)

\* new HttpQueryError(statusCode, message, isGraphQLError, headers):
\* the constructor copies headers into a HeaderMap, which throws on a bad name
HttpQueryErrorNew(statusCode, message, headers) ==
    LET h == HeaderMapNew(headers)
    IN  IF h.threw
        THEN [threw |-> TRUE, value |-> PlainError("Headers must be lower-case")]
        ELSE [threw |-> FALSE,
              value |-> ErrorValue("HttpQueryError", statusCode, message, h.map)]

\* HTTPGraphQLResponse
Response(statusCode, headers, completeBody) ==
    [statusCode |-> statusCode, headers |-> headers, completeBody |-> completeBody,
     bodyChunks |-> "null"]

\* a response body: plain text, or the JSON text of an ordered list of members
TextBody(message) == [kind |-> "text", text |-> message, json |-> <<>>, newline |-> FALSE]

\* a text made of one part
Text(part) == <<part>>

\* HttpQueryError.asHTTPGraphQLResponse
asHTTPGraphQLResponse(e) ==
    LET h == HeaderMapNew(<<<<h_contentType, "text/plain">>>> \o e.headers)
    IN  IF h.threw
        THEN [threw |-> TRUE, value |-> PlainError("Headers must be lower-case")]
        ELSE [threw |-> FALSE,
              value |-> Response(e.statusCode, h.map, TextBody(e.message))]

-----------------------------------------------------------------------------
(* JavaScript values of the request. A value is a type tag t and a payload *)
(* v; a body or a searchParams value also has the fields f the code reads.  *)

Val(t, v) == [t |-> t, v |-> v]
U == Val("undefined", "")

Str(text) == Val("string", text)

FieldNames == {"query", "operationName", "variables", "extensions"}
NoFields == [k \in FieldNames |-> U]

\* a body or searchParams that is no plain object
Top(t, v) == [t |-> t, v |-> v, f |-> NoFields]

\* a plain object with the given members (U: the key is absent)
Obj(query, operationName, variables, extensions) ==
    [t |-> "object", v |-> "",
     f |-> [query |-> query, operationName |-> operationName,
            variables |-> variables, extensions |-> extensions]]

\* typeof x
TypeOf(x) == IF x.t \in {"object", "null", "array", "buffer"} THEN "object" ELSE x.t

\* ToBoolean(x)
Truthy(x) ==
    /\ x.t \notin {"undefined", "null"}
    /\ ~(x.t = "boolean" /\ x.v = "false")
    /\ ~(x.t = "number" /\ x.v = "0")
    /\ ~(x.t = "string" /\ x.v = "")

\* Object.keys(o).length: the members of a plain object, the indices of an
\* array or a Buffer (v names its content, "" when it has none)
KeyCount(o) ==
    IF o.t \in {"array", "buffer"} THEN (IF o.v = "" THEN 0 ELSE 1)
    ELSE Cardinality({k \in FieldNames : o.f[k] # U})

\* JSON.parse on the texts the requests carry; any other text is no JSON
JSONParse(text) ==
    CASE text = "{\"a\":1}" -> [threw |-> FALSE, value |-> Val("object", "record")]
      [] text = "{}"        -> [threw |-> FALSE, value |-> Val("object", "empty")]
      [] text = "[1]"       -> [threw |-> FALSE, value |-> Val("array", "")]
      [] text = "null"      -> [threw |-> FALSE, value |-> Val("null", "")]
      [] text = "1"         -> [threw |-> FALSE, value |-> Val("number", "1")]
      [] OTHER              -> [threw |-> TRUE, value |-> U]

\* the statusCode of a partial response nobody set (undefined)
StatusUndefined == -1

\* isStringRecord without its Buffer.isBuffer test
isStringRecordNoBufferTest(o) ==
    Truthy(o) /\ TypeOf(o) = "object" /\ o.t # "array"

isStringRecord(o) ==
    Truthy(o) /\ TypeOf(o) = "object" /\ o.t # "buffer" /\ o.t # "array"

isNonEmptyStringRecord(o) == isStringRecord(o) /\ KeyCount(o) > 0

fieldIfString(o, fieldName) ==
    IF TypeOf(o.f[fieldName]) = "string" THEN o.f[fieldName] ELSE U

fieldIfRecord(o, fieldName) ==
    IF isStringRecord(o.f[fieldName]) THEN o.f[fieldName] ELSE U

\* the normaliser's results: a value, or a thrown HttpQueryError
Returned(value) == [threw |-> FALSE, value |-> value]
Thrown(error)   == [threw |-> TRUE, value |-> error]

jsonParsedFieldIfNonEmptyString(o, fieldName) ==
    IF TypeOf(o.f[fieldName]) = "string" /\ Truthy(o.f[fieldName])
    THEN LET hopefullyRecord == JSONParse(o.f[fieldName].v)
         IN  IF hopefullyRecord.threw
             THEN Thrown(HttpQueryErrorNew(400, "search parameter contains invalid JSON",
                                           <<>>).value)
             ELSE IF ~isStringRecord(hopefullyRecord.value)
             THEN Thrown(HttpQueryErrorNew(400,
                             "search parameter should contain a JSON-encoded object",
                             <<>>).value)
             ELSE Returned(hopefullyRecord.value)
    ELSE Returned(U)

\* ensureQueryIsStringOrMissing throwing for a parsed document only
ensureQueryIsNoDocument(query) ==
    IF ~Truthy(query) \/ TypeOf(query) = "string"
    THEN Returned(U)
    ELSE IF query.t = "object" /\ query.v = "Document"
    THEN Thrown(HttpQueryErrorNew(400,
                    "GraphQL queries must be strings. It looks like you're sending the internal graphql-js representation",
                    <<>>).value)
    ELSE Returned(U)

ensureQueryIsStringOrMissing(query) ==
    IF ~Truthy(query) \/ TypeOf(query) = "string"
    THEN Returned(U)
    ELSE IF query.t = "object" /\ query.v = "Document"
    THEN Thrown(HttpQueryErrorNew(400,
                    "GraphQL queries must be strings. It looks like you're sending the internal graphql-js representation",
                    <<>>).value)
    ELSE Thrown(HttpQueryErrorNew(400, "GraphQL queries must be strings.", <<>>).value)

\* debugFromNodeEnv
debugFromNodeEnv(nodeEnv) == nodeEnv # "production" /\ nodeEnv # "test"

\* GraphQLRequest
GraphQLRequest(query, operationName, variables, extensions) ==
    [query |-> query, operationName |-> operationName,
     variables |-> variables, extensions |-> extensions]

NoRequest == GraphQLRequest(U, U, U, U)

\* runHttpQuery, lines 163-219: the request of a POST
NormalizePost(req) ==
    IF ~isNonEmptyStringRecord(req.body)
    THEN [kind |-> "return",
          value |-> asHTTPGraphQLResponse(HttpQueryErrorNew(400,
                        "POST body missing, invalid Content-Type, or JSON object has no keys.",
                        <<>>).value)]
    ELSE LET q == ensureQueryIsStringOrMissing(req.body.f.query)
         IN  IF q.threw THEN [kind |-> "throw", value |-> q.value]
             ELSE [kind |-> "request",
                   value |-> GraphQLRequest(fieldIfString(req.body, "query"),
                                            fieldIfString(req.body, "operationName"),
                                            fieldIfRecord(req.body, "variables"),
                                            fieldIfRecord(req.body, "extensions"))]

\* runHttpQuery, lines 184-211: the request of a GET
NormalizeGet(req) ==
    IF ~isNonEmptyStringRecord(req.searchParams)
    THEN [kind |-> "return",
          value |-> asHTTPGraphQLResponse(HttpQueryErrorNew(400, "GET query missing.",
                                                            <<>>).value)]
    ELSE LET q == ensureQueryIsStringOrMissing(req.searchParams.f.query)
             variables  == jsonParsedFieldIfNonEmptyString(req.searchParams, "variables")
             extensions == jsonParsedFieldIfNonEmptyString(req.searchParams, "extensions")
         IN  IF q.threw THEN [kind |-> "throw", value |-> q.value]
             ELSE IF variables.threw THEN [kind |-> "throw", value |-> variables.value]
             ELSE IF extensions.threw THEN [kind |-> "throw", value |-> extensions.value]
             ELSE [kind |-> "request",
                   value |-> GraphQLRequest(fieldIfString(req.searchParams, "query"),
                                            fieldIfString(req.searchParams, "operationName"),
                                            variables.value, extensions.value)]

\* the switch with its default case falling into the POST case
NormalizeAnyMethodAsPost(req) ==
    IF req.method = "GET" THEN NormalizeGet(req) ELSE NormalizePost(req)

\* runHttpQuery, lines 163-219: switch (httpRequest.method)
Normalize(req) ==
    CASE req.method = "POST" -> NormalizePost(req)
      [] req.method = "GET"  -> NormalizeGet(req)
      [] OTHER ->
            [kind |-> "return",
             value |-> asHTTPGraphQLResponse(HttpQueryErrorNew(405,
                           "Apollo Server supports only GET/POST requests.",
                           <<<<h_allow, "GET, POST">>>>).value)]

-----------------------------------------------------------------------------
(* JSON bodies                                                              *)

\* a JSON member value: tok names the value, by names who shaped it
Raw(tok) == [tok |-> <<tok>>, by |-> "pipeline", debug |-> "n/a"]
JUndefined == Raw("undefined")

\* formatApolloErrors([error], {debug, formatter}) of ./errors
formatApolloErrors(error, debug) ==
    [tok |-> error.message, by |-> "formatApolloErrors", debug |-> debug]

\* JSON.stringify(value) + '\n': members whose value is undefined are left out
prettyJSONStringify(members) ==
    [kind |-> "json", text |-> <<>>,
     json |-> SelectSeq(members, LAMBDA m : m[2] # JUndefined),
     newline |-> TRUE]

\* serializeGraphQLResponse: errors first, then data, then extensions
serializeGraphQLResponse(response) ==
    << <<"errors", Raw(response.errors)>>,
       <<"data", Raw(response.data)>>,
       <<"extensions", Raw(response.extensions)>> >>

\* the UTF-8 length of "key": and of the sample values
MemberBytes(m) ==
    (CASE m[1] = "errors" -> 9 [] m[1] = "data" -> 7 [] OTHER -> 13)
    + (CASE m[2].tok = <<"D">> -> 17 [] m[2].tok = <<"E">> -> 17 [] m[2].tok = <<"X">> -> 7
         [] OTHER -> 4)

RECURSIVE SumBytes(_)
SumBytes(members) ==
    IF members = <<>> THEN 0 ELSE MemberBytes(Head(members)) + SumBytes(Tail(members))

\* Buffer.byteLength(body, 'utf8'): braces, members, commas, the newline
ByteLength(body) ==
    2 + SumBytes(body.json)
      + (IF Len(body.json) > 1 THEN Len(body.json) - 1 ELSE 0)
      + (IF body.newline THEN 1 ELSE 0)

NoBody == [kind |-> "none", text |-> <<>>, json |-> <<>>, newline |-> FALSE]
NoResponse == Response(StatusUndefined, <<>>, NoBody)
NoError == ErrorValue("none", 0, "", <<>>)
NoPartial == [headers |-> <<>>, statusCode |-> StatusUndefined]
NoResult == [kind |-> "none", response |-> NoResponse, error |-> NoError]

-----------------------------------------------------------------------------
(* Context objects                                                          *)

CtxFields == {"user", "marker"}
Absent == Val("absent", "")
Prim(v) == Val("prim", v)
Ref(id) == Val("ref", id)

ObjIds == {"orig", "clone"}
NestedIds == {"n1", "n2"}
NestedValues == {"v0", "v1"}

Unallocated == [alloc |-> FALSE, proto |-> "", f |-> [k \in CtxFields |-> Absent]]

\* the caller's application context: a class instance holding one nested object
OrigContext ==
    [alloc |-> TRUE, proto |-> "AppContext",
     f |-> [user |-> Ref("n1"), marker |-> Absent]]

\* cloneObject handing back its argument instead of a copy
cloneObjectAlias(heap, object) == [ref |-> object, obj |-> heap[object]]

\* cloneObject: Object.assign(Object.create(Object.getPrototypeOf(object)), object);
\* the new object and the id it is stored under
cloneObject(heap, object) ==
    [ref |-> "clone",
     obj |-> [alloc |-> TRUE, proto |-> heap[object].proto, f |-> heap[object].f]]

-----------------------------------------------------------------------------
(* runHttpQuery                                                             *)

\* the catch clause rethrowing what is no HttpQueryError
CatchClauseRethrow(error, debug) ==
    IF error.cls = "HttpQueryError"
    THEN LET r == asHTTPGraphQLResponse(error)
         IN  IF r.threw
             THEN [kind |-> "raised", response |-> NoResponse, error |-> r.value,
                   formatted |-> 0]
             ELSE [kind |-> "returned", response |-> r.value, error |-> NoError,
                   formatted |-> 0]
    ELSE [kind |-> "raised", response |-> NoResponse, error |-> error, formatted |-> 0]

\* runHttpQuery, lines 318-334: the catch clause
CatchClause(error, debug) ==
    IF error.cls = "HttpQueryError"
    THEN LET r == asHTTPGraphQLResponse(error)
         IN  IF r.threw
             THEN [kind |-> "raised", response |-> NoResponse, error |-> r.value,
                   formatted |-> 0]
             ELSE [kind |-> "returned", response |-> r.value, error |-> NoError,
                   formatted |-> 0]
    ELSE [kind |-> "returned",
          response |-> Response(500,
                         HeaderMapNew(<<<<h_contentType, "application/json">>>>).map,
                         prettyJSONStringify(
                             << <<"errors", formatApolloErrors(error, debug)>> >>)),
          error |-> NoError,
          formatted |-> 1]

ReturnedResponse(response) ==
    [kind |-> "returned", response |-> response, error |-> NoError, formatted |-> 0]

\* the hook letting every operation but a mutation through
didResolveOperationMutationsOnly(operation) ==
    IF operation = "mutation"
    THEN LET e == HttpQueryErrorNew(405, "GET supports only query operation",
                                    <<<<h_allow, "POST">>>>)
         IN  Thrown(e.value)
    ELSE Returned(U)

\* the plugin runHttpQuery puts first for a GET: its didResolveOperation
didResolveOperation(operation) ==
    IF operation # "query"
    THEN LET e == HttpQueryErrorNew(405, "GET supports only query operation",
                                    <<<<h_allow, "POST">>>>)
         IN  Thrown(e.value)
    ELSE Returned(U)

\* runHttpQuery, lines 221-242: the call's plugin list
PluginsFor(method, optionPlugins) ==
    IF method = "GET" THEN <<"getOnlyQueries">> \o optionPlugins ELSE optionPlugins

NoPipeline ==
    [invoked |-> 0, steps |-> 0, resolved |-> "none", policyRuns |-> 0,
     hookError |-> NoError,
     outcome |-> [kind |-> "none", errors |-> "undefined", data |-> "undefined",
                  extensions |-> "undefined", http |-> "absent", error |-> NoError]]

\* top: the top-level fields the pipeline wrote on requestContext.context;
\* last: its last write inside a nested object, and whether the field it went
\* through still held what the clone was given
NoCtxLog == [top |-> {}, last |-> [field |-> "", val |-> "", inherited |-> FALSE]]

\* calls of runHttpQuery in one run of the model
MaxCalls == 2

\* side effects of plugins during one pipeline execution
MaxPipelineSteps == 2

QueryTexts == {"{ hello }", "mutation { noop }"}
GetQueryTexts == {"{ hello }", "mutation { noop }", "subscription { tick }"}

\* values a client may send as the query member
BadQueries == {Val("number", "1"), Val("boolean", "true"), Val("object", "Document"),
               Val("object", "record"), Val("array", "")}
FalsyQueries == {Val("null", ""), Val("boolean", "false"), Val("number", "0"), Str("")}

PostBodies ==
    {Top("undefined", ""), Top("null", ""), Top("string", "text"), Top("array", ""),
     Top("array", "[1]"), Top("buffer", "bytes"), Top("number", "1"), Obj(U, U, U, U)}
    \cup {Obj(q, U, U, U) : q \in BadQueries \cup FalsyQueries}
    \cup {Obj(Str(q), U, U, U) : q \in QueryTexts}
    \cup {Obj(U, Str("Op"), Val("object", "record"), Str("x"))}

SearchParams ==
    {Top("undefined", ""), Top("null", ""), Obj(U, U, U, U)}
    \cup {Obj(q, U, U, U) : q \in BadQueries \cup {Val("null", "")}}
    \cup {Obj(Str(q), U, U, U) : q \in GetQueryTexts}
    \cup {Obj(Str("{ hello }"), U, Str(v), U) : v \in {"{\"a\":1}", "{bad", "[1]", "null", ""}}
    \cup {Obj(Str("{ hello }"), U, Val("object", "record"), Str("{bad"))}

OtherMethods == {"PUT", "DELETE", "get"}

HTTPGraphQLRequest(method, body, searchParams) ==
    [method |-> method, body |-> body, searchParams |-> searchParams]

Requests ==
    {HTTPGraphQLRequest("POST", b, Obj(U, U, U, U)) : b \in PostBodies}
    \cup {HTTPGraphQLRequest("GET", Top("undefined", ""), sp) : sp \in SearchParams}
    \cup {HTTPGraphQLRequest(m, b, Obj(Str("{ hello }"), U, U, U)) :
             m \in OtherMethods, b \in {Top("undefined", ""), Obj(Str("{ hello }"), U, U, U)}}

NoHttpRequest == HTTPGraphQLRequest("", Top("undefined", ""), Top("undefined", ""))

Options(debug, nodeEnv, optionPlugins) ==
    [debug |-> debug, nodeEnv |-> nodeEnv, plugins |-> optionPlugins]

\* the parse of the pipeline: the kind of the operation a query text names
OperationKindOf(query) ==
    CASE query = Str("{ hello }") -> "query"
      [] query = Str("mutation { noop }") -> "mutation"
      [] query = Str("subscription { tick }") -> "subscription"
      [] OTHER -> "none"

\* runHttpQuery ending at once, before any await
EndNow(end) ==
    /\ pc' = "done"
    /\ result' = [kind |-> end.kind, response |-> end.response, error |-> end.error]
    /\ formatterCalls' = end.formatted
    /\ graphqlRequest' = NoRequest
    /\ plugins' = <<>>
    /\ partialResponse' = NoPartial
    /\ UNCHANGED <<ctxRef, objs>>
    /\ pipeline' = NoPipeline

\* runHttpQuery, lines 156-285: from the call to the await of the pipeline
Call ==
    /\ pc = "idle"
    /\ calls < MaxCalls
    /\ \E req \in Requests :
        LET debug == IF options.debug = "undefined"
                     THEN (IF debugFromNodeEnv(options.nodeEnv) THEN "true" ELSE "false")
                     ELSE options.debug
            n == Normalize(req)
        IN  /\ calls' = calls + 1
            /\ httpRequest' = req
            /\ options' = [options EXCEPT !.debug = debug]
            /\ UNCHANGED <<ctxLog, nested>>
            /\ CASE n.kind = "return" ->
                       EndNow(IF n.value.threw THEN CatchClause(n.value.value, debug)
                              ELSE ReturnedResponse(n.value.value))
                 [] n.kind = "throw" -> EndNow(CatchClause(n.value, debug))
                 [] OTHER ->
                       LET headers == HeaderMapNew(<<<<h_contentType, "application/json">>>>)
                           c == cloneObject(objs, "orig")
                       IN  /\ graphqlRequest' = n.value
                           /\ plugins' = PluginsFor(req.method, options.plugins)
                           /\ partialResponse' = [headers |-> headers.map,
                                                  statusCode |-> StatusUndefined]
                           /\ ctxRef' = c.ref
                           /\ objs' = [objs EXCEPT ![c.ref] = c.obj]
                           /\ pipeline' = [NoPipeline EXCEPT !.invoked = 1]
                           /\ formatterCalls' = 0
                           /\ result' = NoResult
                           /\ pc' = "awaiting"
    /\ UNCHANGED <<hvars, cvars>>


-----------------------------------------------------------------------------
(* processGraphQLRequest of ./requestPipeline, as runHttpQuery sees it:     *)
(* plugins write the shared partial response and the context, the operation *)
(* is resolved and the didResolveOperation hooks run, and the promise       *)
(* settles with a result or an error.                                       *)

\* the statuses a plugin sets
PluginStatuses == {401}

\* the top-level writes the pipeline makes on the context
ContextWrites == {<<"user", Prim("p")>>, <<"user", Ref("n2")>>, <<"marker", Prim("p")>>}

Running == pc = "awaiting" /\ pipeline.hookError = NoError

\* a plugin sets response.http.statusCode
PluginSetsStatus ==
    /\ Running
    /\ pipeline.steps < MaxPipelineSteps
    /\ \E s \in PluginStatuses :
        partialResponse' = [partialResponse EXCEPT !.statusCode = s]
    /\ pipeline' = [pipeline EXCEPT !.steps = @ + 1]
    /\ UNCHANGED <<pc, calls, httpRequest, options, graphqlRequest, plugins, objs, nested,
                   ctxRef, ctxLog, formatterCalls, result, hvars, cvars>>

\* a plugin calls response.http.headers.set(name, value); a throw ends the pipeline
PluginSetsHeader ==
    /\ Running
    /\ pipeline.steps < MaxPipelineSteps
    /\ \E name \in {h_xTrace, h_xTRACE} :
        LET r == HeaderMapSet(partialResponse.headers, name, "v1")
        IN  /\ partialResponse' = [partialResponse EXCEPT !.headers = r.map]
            /\ pipeline' = [pipeline EXCEPT
                              !.steps = @ + 1,
                              !.hookError = IF r.threw
                                            THEN PlainError("Headers must be lower-case")
                                            ELSE NoError]
    /\ UNCHANGED <<pc, calls, httpRequest, options, graphqlRequest, plugins, objs, nested,
                   ctxRef, ctxLog, formatterCalls, result, hvars, cvars>>

\* the pipeline or a plugin assigns a top-level field of requestContext.context
PipelineSetsContextField ==
    /\ Running
    /\ pipeline.steps < MaxPipelineSteps
    /\ \E w \in ContextWrites :
        /\ objs' = [objs EXCEPT ![ctxRef].f[w[1]] = w[2]]
        /\ ctxLog' = [ctxLog EXCEPT !.top = @ \cup {w[1]}]
    /\ pipeline' = [pipeline EXCEPT !.steps = @ + 1]
    /\ UNCHANGED <<pc, calls, httpRequest, options, graphqlRequest, plugins,
                   partialResponse, nested, ctxRef, formatterCalls, result, hvars, cvars>>

\* the pipeline or a resolver writes inside an object a context field refers to
PipelineWritesNested ==
    /\ Running
    /\ pipeline.steps < MaxPipelineSteps
    /\ \E field \in CtxFields, val \in NestedValues :
        /\ objs[ctxRef].f[field].t = "ref"
        /\ nested' = [nested EXCEPT ![objs[ctxRef].f[field].v] = val]
        /\ ctxLog' = [ctxLog EXCEPT !.last = [field |-> field, val |-> val,
                                              inherited |-> field \notin ctxLog.top]]
    /\ pipeline' = [pipeline EXCEPT !.steps = @ + 1]
    /\ UNCHANGED <<pc, calls, httpRequest, options, graphqlRequest, plugins,
                   partialResponse, objs, ctxRef, formatterCalls, result, hvars, cvars>>

\* the didResolveOperation hooks, in plugin order, up to the first that throws
RECURSIVE DidResolveOperationHooks(_, _)
DidResolveOperationHooks(pluginList, operation) ==
    IF pluginList = <<>> THEN [error |-> NoError, policyRuns |-> 0]
    ELSE IF Head(pluginList) = "getOnlyQueries"
    THEN LET r == didResolveOperation(operation)
             rest == DidResolveOperationHooks(Tail(pluginList), operation)
         IN  IF r.threw THEN [error |-> r.value, policyRuns |-> 1]
             ELSE [error |-> rest.error, policyRuns |-> rest.policyRuns + 1]
    ELSE DidResolveOperationHooks(Tail(pluginList), operation)

\* the pipeline parses the query and resolves the operation to run
PipelineResolvesOperation ==
    /\ Running
    /\ pipeline.resolved = "none"
    /\ OperationKindOf(graphqlRequest.query) # "none"
    /\ LET operation == OperationKindOf(graphqlRequest.query)
           hooks == DidResolveOperationHooks(plugins, operation)
       IN  pipeline' = [pipeline EXCEPT !.resolved = operation,
                                        !.policyRuns = hooks.policyRuns,
                                        !.hookError = hooks.error]
    /\ UNCHANGED <<pc, calls, httpRequest, options, graphqlRequest, plugins,
                   partialResponse, objs, nested, ctxRef, ctxLog, formatterCalls, result,
                   hvars, cvars>>

\* GraphQLResponse: the members are named by tokens, "undefined" when absent;
\* http is the shared partial response or is absent
GraphQLResponse(errors, data, extensions, http) ==
    [kind |-> "returned", errors |-> errors, data |-> data, extensions |-> extensions,
     http |-> http, error |-> NoError]

PipelineResults ==
    {GraphQLResponse(e, d, "undefined", h) :
        e \in {"undefined", "E"}, d \in {"undefined", "D"}, h \in {"shared", "absent"}}
    \cup {GraphQLResponse("E", "undefined", "X", "shared"),
          GraphQLResponse("undefined", "D", "X", "shared")}

\* what a plugin or the pipeline may throw
Throwables ==
    {PlainError("boom"),
     ErrorValue("null", 0, "", <<>>),
     HttpQueryErrorNew(403, "forbidden", <<<<h_xTrace, "v1">>>>).value,
     HttpQueryErrorNew(403, "forbidden", <<<<h_Allow, "POST">>>>).value}

-----------------------------------------------------------------------------
(* runHttpQuery after the await                                             *)

\* runHttpQuery, lines 289-304: errors and no data, a failure before execution
PreExecutionFailureResponse(response, partial, debug) ==
    IF response.http = "absent"
    THEN \* ...response.http?.headers.entries() spreads undefined
         [end |-> CatchClause(TypeError("undefined is not iterable"), debug),
          partial |-> partial]
    ELSE LET h == HeaderMapNew(<<<<h_contentType, "application/json">>>> \o partial.headers)
         IN  IF h.threw
             THEN [end |-> CatchClause(PlainError("Headers must be lower-case"), debug),
                   partial |-> partial]
             ELSE [end |-> ReturnedResponse(Response(
                             IF partial.statusCode \in {StatusUndefined, 0}
                             THEN 400 ELSE partial.statusCode,
                             h.map,
                             prettyJSONStringify(
                                 << <<"errors", Raw(response.errors)>>,
                                    <<"extensions", Raw(response.extensions)>> >>))),
                   partial |-> partial]

\* the normal completion taking its status as the failure path does (|| 400)
NormalCompletionResponseOr400(response, partial, debug) ==
    LET body == prettyJSONStringify(serializeGraphQLResponse(response))
        h == HeaderMapSet(partial.headers, h_contentLength, ToString(ByteLength(body)))
    IN  [end |-> ReturnedResponse(Response(
                    IF partial.statusCode \in {StatusUndefined, 0}
                    THEN 400 ELSE partial.statusCode, h.map, body)),
         partial |-> [partial EXCEPT !.headers = h.map]]

\* runHttpQuery, lines 306-317: the body, its content-length, the partial response
NormalCompletionResponse(response, partial, debug) ==
    LET body == prettyJSONStringify(serializeGraphQLResponse(response))
        h == HeaderMapSet(partial.headers, h_contentLength, ToString(ByteLength(body)))
    IN  IF h.threw
        THEN [end |-> CatchClause(PlainError("Headers must be lower-case"), debug),
              partial |-> partial]
        ELSE [end |-> ReturnedResponse(Response(partial.statusCode, h.map, body)),
              partial |-> [partial EXCEPT !.headers = h.map]]

\* runHttpQuery, lines 285-317: the pipeline's result made into the response
TranslateResponse(response, partial, debug) ==
    IF response.errors # "undefined" /\ response.data = "undefined"
    THEN PreExecutionFailureResponse(response, partial, debug)
    ELSE NormalCompletionResponse(response, partial, debug)

Finish(end, outcome) ==
    /\ pc' = "done"
    /\ result' = [kind |-> end.kind, response |-> end.response, error |-> end.error]
    /\ formatterCalls' = formatterCalls + end.formatted
    /\ pipeline' = [pipeline EXCEPT !.outcome = outcome]

\* the await returns the pipeline's result
ResumeReturned ==
    /\ Running
    /\ \E r \in PipelineResults :
        /\ r.data # "undefined" => pipeline.resolved # "none"
        /\ LET t == TranslateResponse(r, partialResponse, options.debug)
           IN  /\ Finish(t.end, r)
               /\ partialResponse' = t.partial
    /\ UNCHANGED <<calls, httpRequest, options, graphqlRequest, plugins, objs, nested,
                   ctxRef, ctxLog, hvars, cvars>>

\* the await throws what a hook or the pipeline threw
ResumeThrew ==
    /\ pc = "awaiting"
    /\ \E e \in (IF pipeline.hookError # NoError THEN {pipeline.hookError} ELSE Throwables) :
        Finish(CatchClause(e, options.debug),
               [NoPipeline.outcome EXCEPT !.kind = "threw", !.error = e])
    /\ UNCHANGED <<calls, httpRequest, options, graphqlRequest, plugins, partialResponse,
                   objs, nested, ctxRef, ctxLog, hvars, cvars>>

\* the caller takes the response; the request context of the call is dropped
Respond ==
    /\ pc = "done"
    /\ pc' = "idle"
    /\ httpRequest' = NoHttpRequest
    /\ graphqlRequest' = NoRequest
    /\ plugins' = <<>>
    /\ partialResponse' = NoPartial
    /\ objs' = [objs EXCEPT !["clone"] = Unallocated]
    /\ nested' = [nested EXCEPT !["n2"] = "v0"]
    /\ ctxRef' = "orig"
    /\ pipeline' = NoPipeline
    /\ ctxLog' = NoCtxLog
    /\ formatterCalls' = 0
    /\ result' = NoResult
    /\ UNCHANGED <<calls, options, hvars, cvars>>

RNext ==
    \/ Call
    \/ Respond
    \/ PluginSetsStatus
    \/ PluginSetsHeader
    \/ PipelineSetsContextField
    \/ PipelineWritesNested
    \/ PipelineResolvesOperation
    \/ ResumeReturned
    \/ ResumeThrew

-----------------------------------------------------------------------------
(* SpecHeaders: a HeaderMap under construction, set and delete, and the    *)
(* headers handed to an HttpQueryError.                                     *)

HeaderNames  == {h_allow, h_Allow, h_xTrace, h_xTRACE}
HeaderValues == {"v1", "v2"}
HeaderPairs  == {<<n, "v1">> : n \in HeaderNames}

\* whether a name holds an upper-case character
HasUpper(name) ==
    \E i \in 1..Len(name) : \E j \in 1..Len(UpperChars) : name[i] = UpperChars[j]

AnyUpper(entries) == \E i \in 1..Len(entries) : HasUpper(entries[i][1])

\* longest list of initial entries handed to a constructor
MaxEntries == 2

RECURSIVE SeqsUpTo(_, _)
SeqsUpTo(S, n) ==
    IF n = 0 THEN {<<>>}
    ELSE LET shorter == SeqsUpTo(S, n - 1)
         IN  shorter \cup {Append(q, x) : q \in {r \in shorter : Len(r) = n - 1}, x \in S}

EntryLists == SeqsUpTo(HeaderPairs, MaxEntries)

\* the entries of a plain Map: one entry per key
PlainMaps == {e \in EntryLists : \A i, j \in 1..Len(e) : e[i][1] = e[j][1] => i = j}

\* the last operation: its arguments (for a constructor, whether any initial
\* name holds an upper-case character), whether it threw, and whether it left
\* the collection as it was
HLast(op, key, value, anyUpper, threw, same) ==
    [op |-> op, key |-> key, value |-> value, anyUpper |-> anyUpper, threw |-> threw,
     same |-> same]

\* headers.set(key, value)
HSet ==
    \E key \in HeaderNames, value \in HeaderValues :
        LET r == HeaderMapSet(hm, key, value)
        IN  /\ hm' = r.map
            /\ hmLast' = HLast("set", key, value, HasUpper(key), r.threw, r.map = hm)
            /\ UNCHANGED <<cvars, rvars>>

\* headers.delete(key)
HDelete ==
    \E key \in HeaderNames :
        /\ hm' = MapDelete(hm, key)
        /\ hmLast' = HLast("delete", key, NoValue, HasUpper(key), FALSE, hm' = hm)
        /\ UNCHANGED <<cvars, rvars>>

\* headers = new HeaderMap(entries); a throwing constructor assigns nothing
HNew ==
    \E entries \in EntryLists :
        LET r == HeaderMapNew(entries)
        IN  /\ hm' = IF r.threw THEN hm ELSE r.map
            /\ hmLast' = HLast("new", <<>>, NoValue, AnyUpper(entries), r.threw, hm' = hm)
            /\ UNCHANGED <<cvars, rvars>>

\* headers = new HttpQueryError(405, m, false, map).asHTTPGraphQLResponse().headers
HError ==
    \E entries \in PlainMaps :
        LET e == HttpQueryErrorNew(405, "m", entries)
            r == IF e.threw THEN e ELSE asHTTPGraphQLResponse(e.value)
        IN  /\ hm' = IF r.threw THEN hm ELSE r.value.headers
            /\ hmLast' = HLast("error", <<>>, NoValue, AnyUpper(entries), r.threw, hm' = hm)
            /\ UNCHANGED <<cvars, rvars>>

HNext ==
    \/ HSet
    \/ HDelete
    \/ HNew
    \/ HError

-----------------------------------------------------------------------------
(* executeContextFunction                                                   *)

\* what a context function throws: a value of type t; an object has a message
\* and may have extensions with a code ("undefined": none)
CtxThrown(t, message, hasExtensions, code) ==
    [t |-> t, message |-> message, hasExtensions |-> hasExtensions, code |-> code]

ErrorCodes == {"undefined", "", "INTERNAL_SERVER_ERROR", "UNAUTHENTICATED", "BAD_USER_INPUT"}

ContextThrowables ==
    {CtxThrown("object", Text(m), FALSE, "undefined") : m \in {"no token", "db down"}}
    \cup {CtxThrown("object", Text("no token"), TRUE, c) : c \in ErrorCodes}
    \cup {CtxThrown(t, <<>>, FALSE, "undefined") : t \in {"null", "undefined", "string"}}

ContextFunctions ==
    {[kind |-> "resolve", value |-> v, thrown |-> CtxThrown("undefined", <<>>, FALSE, "undefined")]
        : v \in {"ctxA", "ctxB"}}
    \cup {[kind |-> "reject", value |-> "", thrown |-> e] : e \in ContextThrowables}

CfOptions == {[debug |-> d, formatter |-> f] :
                 d \in {"undefined", "true", "false"}, f \in {"none", "custom"}}

CfResult(kind, context, hasError, response, raised) ==
    [kind |-> kind, context |-> context, errorHTTPGraphQLResponse |-> hasError,
     response |-> response, raised |-> raised]

NoCfResult == CfResult("none", "", FALSE, NoResponse, NoError)

\* the catch clause of executeContextFunction, lines 373-395
ContextFunctionCaught(e, opts) ==
    IF e.t \in {"null", "undefined"}
    THEN \* e.message reads a property of null or undefined
         CfResult("raised", "", FALSE, NoResponse,
                  TypeError("Cannot read properties of null or undefined"))
    ELSE IF e.t # "object"
    THEN \* e.message = ... assigns to a property of a primitive, in strict code
         CfResult("raised", "", FALSE, NoResponse,
                  TypeError("Cannot create property 'message'"))
    ELSE LET message == <<"Context creation failed: ">> \o e.message
             statusCode == IF e.hasExtensions
                              /\ e.code \notin {"undefined", ""}
                              /\ e.code # "INTERNAL_SERVER_ERROR"
                           THEN 400 ELSE 500
         IN  CfResult("returned", "", TRUE,
                 Response(statusCode,
                          HeaderMapNew(<<<<h_contentType, "application/json">>>>).map,
                          prettyJSONStringify(
                              << <<"errors",
                                   formatApolloErrors([message |-> message], opts.debug)>> >>)),
                 NoError)

\* executeContextFunction
executeContextFunction(fn, opts) ==
    IF fn.kind = "resolve"
    THEN CfResult("returned", fn.value, FALSE, NoResponse, NoError)
    ELSE ContextFunctionCaught(fn.thrown, opts)

\* executeContextFunction is called and awaits contextFunction()
CfCall ==
    /\ cfPc = "idle"
    /\ \E fn \in ContextFunctions, opts \in CfOptions :
        cfFn' = [fn |-> fn, options |-> opts]
    /\ cfPc' = "awaiting"
    /\ UNCHANGED <<cfOut, hvars, rvars>>

\* the promise of the context function settles and executeContextFunction ends
CfResume ==
    /\ cfPc = "awaiting"
    /\ cfOut' = executeContextFunction(cfFn.fn, cfFn.options)
    /\ cfPc' = "done"
    /\ UNCHANGED <<cfFn, hvars, rvars>>

CNext ==
    \/ CfCall
    \/ CfResume

-----------------------------------------------------------------------------
(* The specifications                                                       *)

NoCfCall == [fn |-> [kind |-> "none", value |-> "",
                     thrown |-> CtxThrown("undefined", <<>>, FALSE, "undefined")],
             options |-> [debug |-> "undefined", formatter |-> "none"]]

NoHLast == HLast("none", <<>>, NoValue, FALSE, FALSE, TRUE)
\* runHttpQuery not yet called; the caller's options set debug or leave it unset
Init ==
    /\ hm = <<>> /\ hmLast = NoHLast
    /\ cfPc = "off" /\ cfFn = NoCfCall /\ cfOut = NoCfResult
    /\ pc = "idle"
    /\ calls = 0
    /\ httpRequest = NoHttpRequest
    /\ options \in {Options(d, e, <<"userPlugin">>) :
                        d \in {"undefined", "true"}, e \in {"production", "development"}}
    /\ graphqlRequest = NoRequest
    /\ plugins = <<>>
    /\ partialResponse = NoPartial
    /\ objs = [id \in ObjIds |-> IF id = "orig" THEN OrigContext ELSE Unallocated]
    /\ nested = [id \in NestedIds |-> "v0"]
    /\ ctxRef = "orig"
    /\ pipeline = NoPipeline
    /\ ctxLog = NoCtxLog
    /\ formatterCalls = 0
    /\ result = NoResult

\* an empty HeaderMap
InitHeaders ==
    /\ hm = <<>> /\ hmLast = NoHLast
    /\ cfPc = "off" /\ cfFn = NoCfCall /\ cfOut = NoCfResult
    /\ pc = "off"
    /\ calls = 0
    /\ httpRequest = NoHttpRequest
    /\ options = Options("undefined", "", <<>>)
    /\ graphqlRequest = NoRequest
    /\ plugins = <<>>
    /\ partialResponse = NoPartial
    /\ objs = [id \in ObjIds |-> Unallocated]
    /\ nested = [id \in NestedIds |-> "v0"]
    /\ ctxRef = "orig"
    /\ pipeline = NoPipeline
    /\ ctxLog = NoCtxLog
    /\ formatterCalls = 0
    /\ result = NoResult

\* executeContextFunction not yet called
InitCtx ==
    /\ hm = <<>> /\ hmLast = NoHLast
    /\ cfPc = "idle" /\ cfFn = NoCfCall /\ cfOut = NoCfResult
    /\ pc = "off"
    /\ calls = 0
    /\ httpRequest = NoHttpRequest
    /\ options = Options("undefined", "", <<>>)
    /\ graphqlRequest = NoRequest
    /\ plugins = <<>>
    /\ partialResponse = NoPartial
    /\ objs = [id \in ObjIds |-> Unallocated]
    /\ nested = [id \in NestedIds |-> "v0"]
    /\ ctxRef = "orig"
    /\ pipeline = NoPipeline
    /\ ctxLog = NoCtxLog
    /\ formatterCalls = 0
    /\ result = NoResult

Spec == Init /\ [][RNext]_vars

SpecHeaders == InitHeaders /\ [][HNext]_vars

SpecCtx == InitCtx /\ [][CNext]_vars

-----------------------------------------------------------------------------
(* Properties of runHttpQuery (Spec)                                        *)

Done == pc = "done"
InCall == pc \in {"awaiting", "done"}
Status == result.response.statusCode
ResultHeader(name) == MapGet(result.response.headers, name)

\* C1: runHttpQuery never raises: whatever the request, and whatever the
\* pipeline returns or throws, a call ends with a response, and there is a
\* response exactly when the call has ended.
C1_NeverRaises ==
    /\ result.kind # "raised"
    /\ Done <=> result.kind = "returned"

\* a call that ended although a plugin threw an HttpQueryError into it
C1_Witness ==
    /\ Done
    /\ pipeline.outcome.kind = "threw"
    /\ pipeline.outcome.error.cls = "HttpQueryError"
    /\ pipeline.hookError = NoError
    /\ result.kind = "returned"

\* C2: a method other than GET and POST gets 405 with allow: GET, POST, at
\* once: the pipeline is not invoked, no context is cloned, no plugin runs.
C2_OtherMethods405 ==
    httpRequest.method \notin {"GET", "POST", ""} =>
        /\ Done
        /\ result.kind = "returned"
        /\ Status = 405
        /\ ResultHeader(h_allow) = "GET, POST"
        /\ pipeline.invoked = 0
        /\ pipeline.policyRuns = 0
        /\ ctxRef = "orig"
        /\ plugins = <<>>

\* a request with a body the pipeline could run, sent with a lower-case method
C2_Witness ==
    /\ Done
    /\ httpRequest.method = "get"
    /\ httpRequest.body.f.query = Str("{ hello }")
    /\ Status = 405

\* C3: for a GET, once the operation is resolved and is no query the hook
\* put first fails and the response is 405 with allow: POST; for a query the
\* hook does not fail; for a POST no such hook is in the plugin list.
C3_GetOnlyQueries ==
    /\ (InCall /\ httpRequest.method = "GET" /\ pipeline.resolved \notin {"none", "query"}) =>
            /\ pipeline.policyRuns = 1
            /\ pipeline.hookError.cls = "HttpQueryError"
            /\ Done => /\ result.kind = "returned"
                       /\ Status = 405
                       /\ ResultHeader(h_allow) = "POST"
    /\ (InCall /\ httpRequest.method = "GET" /\ pipeline.resolved = "query") =>
            /\ pipeline.policyRuns = 1
            /\ pipeline.hookError.cls # "HttpQueryError"
    /\ (InCall /\ httpRequest.method = "POST") =>
            /\ \A i \in 1..Len(plugins) : plugins[i] # "getOnlyQueries"
            /\ pipeline.policyRuns = 0
            /\ pipeline.hookError.cls # "HttpQueryError"

\* a GET whose query names a subscription, answered 405
C3_Witness ==
    /\ Done
    /\ httpRequest.method = "GET"
    /\ pipeline.resolved = "subscription"
    /\ Status = 405
    /\ ResultHeader(h_allow) = "POST"

\* the bodies C4 names: missing, null, a string, an array, a Buffer, {}
EmptyOrNonObjectBody(body) ==
    \/ body.t \in {"undefined", "null", "string", "array", "buffer"}
    \/ body.t = "object" /\ \A k \in FieldNames : body.f[k] = U

\* C4: a POST whose body is missing, null, a string, an array, a Buffer or an
\* object without keys gets 400 at once, and the pipeline is not invoked.
C4_PostBody400 ==
    (httpRequest.method = "POST" /\ EmptyOrNonObjectBody(httpRequest.body)) =>
        /\ Done
        /\ result.kind = "returned"
        /\ Status = 400
        /\ pipeline.invoked = 0

\* a POST whose body is a Buffer that has bytes
C4_Witness ==
    /\ Done
    /\ httpRequest.method = "POST"
    /\ httpRequest.body = Top("buffer", "bytes")
    /\ Status = 400

\* the pipeline returned a result with a data member and no plugin set a status
NormalCompletionNoStatus ==
    /\ Done
    /\ pipeline.outcome.kind = "returned"
    /\ pipeline.outcome.data # "undefined"
    /\ partialResponse.statusCode = StatusUndefined

\* C5 as claimed: on normal completion with no status set by a plugin the
\* response has status 200.
C5_Original == NormalCompletionNoStatus => Status = 200

\* C5 amended: on normal completion with no status set by a plugin the
\* response is returned with its statusCode left undefined (200 is left to the
\* transport); on any normal completion the status is the shared partial
\* response's.
C5_StatusLeftUndefined ==
    /\ NormalCompletionNoStatus => (result.kind = "returned" /\ Status = StatusUndefined)
    /\ (Done /\ pipeline.outcome.kind = "returned" /\ pipeline.outcome.data # "undefined") =>
            Status = partialResponse.statusCode

\* scenario A: a POST of { hello } whose result has data and nothing else
C5_Witness ==
    /\ NormalCompletionNoStatus
    /\ httpRequest.method = "POST"
    /\ httpRequest.body.f.query = Str("{ hello }")
    /\ pipeline.outcome.errors = "undefined"
    /\ result.kind = "returned"

\* C6 as claimed: when the pipeline returns errors and no data, with or
\* without an http part, the response has the status set on the partial
\* response, or 400, and a body of the errors and extensions as returned; the
\* formatter is not called.
C6_Original ==
    (Done /\ pipeline.outcome.kind = "returned"
          /\ pipeline.outcome.errors # "undefined" /\ pipeline.outcome.data = "undefined") =>
        /\ result.kind = "returned"
        /\ Status = IF partialResponse.statusCode = StatusUndefined
                    THEN 400 ELSE partialResponse.statusCode
        /\ result.response.completeBody =
              prettyJSONStringify(<< <<"errors", Raw(pipeline.outcome.errors)>>,
                                     <<"extensions", Raw(pipeline.outcome.extensions)>> >>)
        /\ formatterCalls = 0

\* a request that passed the non-empty test and carries a query member that is
\* no string
NonStringQuery(req) ==
    LET o == IF req.method = "POST" THEN req.body ELSE req.searchParams
    IN  /\ req.method \in {"GET", "POST"}
        /\ o.t = "object"
        /\ o.f.query # U
        /\ o.f.query.t # "string"

QueryOf(req) == IF req.method = "POST" THEN req.body.f.query ELSE req.searchParams.f.query

FalsyValue(x) ==
    x.t = "null" \/ (x.t = "boolean" /\ x.v = "false") \/ (x.t = "number" /\ x.v = "0")

MustBeStrings400 ==
    /\ Done
    /\ result.kind = "returned"
    /\ Status = 400
    /\ result.response.completeBody.kind = "text"
    /\ pipeline.invoked = 0

\* C9 as claimed: a query member that is present and no string (a number, a
\* boolean, null, an object) fails normalisation with 400.
C9_Original == NonStringQuery(httpRequest) => MustBeStrings400

\* C9 amended: a query member that is truthy and no string (a non-zero number,
\* true, an array, an object) fails with 400 "GraphQL queries must be
\* strings", with the longer text for kind = 'Document', and the pipeline is
\* not invoked; null, false and 0 are taken as a missing query and a POST
\* carrying one reaches the pipeline without a query.
C9_TruthyNonString400 ==
    /\ (NonStringQuery(httpRequest) /\ ~FalsyValue(QueryOf(httpRequest))) =>
            /\ MustBeStrings400
            /\ result.response.completeBody.text =
                 IF QueryOf(httpRequest) = Val("object", "Document")
                 THEN Text("GraphQL queries must be strings. It looks like you're sending the internal graphql-js representation")
                 ELSE Text("GraphQL queries must be strings.")
    /\ (NonStringQuery(httpRequest) /\ FalsyValue(QueryOf(httpRequest))
          /\ httpRequest.method = "POST") =>
            /\ InCall
            /\ pipeline.invoked = 1
            /\ graphqlRequest.query = U

\* a GET whose query search parameter is a number
C9_Witness ==
    /\ Done
    /\ httpRequest.method = "GET"
    /\ httpRequest.searchParams.f.query = Val("number", "1")
    /\ Status = 400

\* C10: the pipeline gets a fresh copy of the caller's context in every call:
\* the caller's object keeps its top-level fields whatever the pipeline
\* assigns, the copy starts from the caller's fields and prototype, and a
\* write inside a nested object through a field the copy inherited is seen
\* through the caller's object.
C10_ShallowCopy ==
    /\ objs["orig"] = OrigContext
    /\ (InCall /\ pipeline.invoked = 1) =>
            /\ ctxRef # "orig"
            /\ objs[ctxRef].alloc
            /\ objs[ctxRef].proto = objs["orig"].proto
    /\ (pc = "awaiting" /\ ctxLog.top = {}) => objs[ctxRef].f = objs["orig"].f
    /\ ctxLog.last.inherited =>
            /\ objs["orig"].f[ctxLog.last.field].t = "ref"
            /\ nested[objs["orig"].f[ctxLog.last.field].v] = ctxLog.last.val

\* the second call on the same original: the pipeline has added a top-level
\* field and written inside the shared nested object
C10_Witness ==
    /\ calls = 2
    /\ InCall
    /\ ctxLog.top = {"marker"}
    /\ ctxLog.last.inherited
    /\ ctxLog.last.val = "v1"
    /\ objs[ctxRef].f["marker"] # objs["orig"].f["marker"]

-----------------------------------------------------------------------------
(* Properties of the HeaderMap (SpecHeaders)                                *)

\* C7: every key a HeaderMap stores is lower-case; set and construction
\* (also of the headers of an HttpQueryError) throw for a name with an
\* upper-case character and leave the collection as it was; set of a
\* lower-case name succeeds and get returns the value.
C7_LowerCaseKeys ==
    /\ \A i \in 1..Len(hm) : ~HasUpper(hm[i][1])
    /\ hmLast.op = "set" =>
            IF hmLast.anyUpper
            THEN hmLast.threw /\ hmLast.same
            ELSE ~hmLast.threw /\ MapGet(hm, hmLast.key) = hmLast.value
    /\ hmLast.op \in {"new", "error"} =>
            IF hmLast.anyUpper THEN hmLast.threw /\ hmLast.same ELSE ~hmLast.threw

\* a set of an upper-case name that threw on a collection holding entries
C7_Witness ==
    /\ hmLast.op = "set"
    /\ hmLast.threw
    /\ Len(hm) = 2

-----------------------------------------------------------------------------
(* Properties of executeContextFunction (SpecCtx)                           *)

\* C8 as claimed: whatever the context function throws, the executor returns
\* an error response whose message is prefixed, with status 400 exactly when
\* the error carries a code other than INTERNAL_SERVER_ERROR, else 500; on
\* success it returns the context and a null error response.
C8_Original ==
    cfPc = "done" =>
        IF cfFn.fn.kind = "reject"
        THEN /\ cfOut.kind = "returned"
             /\ cfOut.errorHTTPGraphQLResponse
             /\ cfOut.response.statusCode =
                  IF cfFn.fn.thrown.hasExtensions
                     /\ cfFn.fn.thrown.code \notin {"undefined", "", "INTERNAL_SERVER_ERROR"}
                  THEN 400 ELSE 500
             /\ Head(cfOut.response.completeBody.json[1][2].tok) = "Context creation failed: "
        ELSE /\ cfOut.kind = "returned"
             /\ ~cfOut.errorHTTPGraphQLResponse
             /\ cfOut.context = cfFn.fn.value

=============================================================================
